---- MODULE Spec2Model ----
(***************************************************************************)
(* The real-time filesystem synchronisation core of local-audio-manager:   *)
(* AudioFileHandler (per-root debounce timers), WatchService (the session  *)
(* that owns the watchdog Observer), IndexService._process_file and the    *)
(* tracks table of DBService.                                              *)
(*                                                                         *)
(* Threads.  The observer thread delivers events to the handlers; every    *)
(* threading.Timer runs its callback on a thread of its own; session       *)
(* operations and the full scan run on the caller's (UI) thread.  A step   *)
(* of the model is one stretch of code between two points where another    *)
(* thread can observe or change shared state (the handler's maps under     *)
(* _lock, the catalog under DBService.lock, the signal).  Reads of the     *)
(* filesystem (exists, stat, the tag reader) are inputs of the step: any   *)
(* other process may change the disk between two reads.                    *)
(***************************************************************************)
EXTENDS Integers, Sequences, FiniteSets, TLC

(***************************************************************************)
(* Bounds of the model.                                                    *)
(***************************************************************************)
MaxEvents == 2       \* filesystem events that pass a handler's filters
MaxTimers == 3       \* threading.Timer threads alive at one time
MaxHandlers == 3     \* AudioFileHandler objects created
MaxRootList == 2     \* length of the folder list given to start_watching
MaxScanVisits == 1   \* files visited by scan_folder loops
MaxClock == 36       \* hours on the clock of the MusicBrainz cache
MaxRequests == 2     \* HTTP requests sent to MusicBrainz

(***************************************************************************)
(* Paths.  A path is its watch root, the sub-directory below it and the    *)
(* file name split at the dots, so that Path.suffix and Path.name can be   *)
(* computed as pathlib computes them.  Extensions are written without      *)
(* their leading dot.                                                      *)
(***************************************************************************)
MkPath(r, d, n) == [root |-> r, sub |-> d, name |-> n]

NoPath == MkPath("", "", << >>)

\* Root names handed to the session; "nodir" does not exist on disk.
RootNames == {"r1", "r2", "nodir"}

\* Path(folder).exists() and Path(folder).is_dir()
IsDir(r) == r \in {"r1", "r2"}

FilesUnder(r) ==
    CASE r = "r1" -> { MkPath(r, "a", <<"song", "mp3">>),
                       MkPath(r, "b", <<"song", "mp3">>),
                       MkPath(r, "a", <<"song", "mp3", "part">>),
                       MkPath(r, "a", <<"song", "mp3", "crdownload">>),
                       MkPath(r, "a", <<"song", "tmp">>),
                       MkPath(r, "a", <<"song", "download">>) }
      [] r = "r2" -> { MkPath(r, "a", <<"song", "mp3">>),
                       MkPath(r, "a", <<"song", "part", "mp3">>),
                       MkPath(r, "a", <<"song", "tmp">>) }
      [] OTHER    -> {}

Paths == UNION { FilesUnder(r) : r \in RootNames }

\* str.lower() on the name components that occur in the model
Lower(c) == CASE c = "MP3" -> "mp3"
              [] c = "Artist" -> "artist"
              [] c = "Song" -> "song"
              [] c = "!qB" -> "!qb"
              [] OTHER     -> c

\* Path.suffix: the last dot-separated component, "" when there is none
Suffix(path) == IF Len(path.name) >= 2 THEN path.name[Len(path.name)] ELSE ""

SUPPORTED_EXTENSIONS == {"mp3", "wav", "flac"}

TEMP_EXTENSIONS == {"part", "crdownload", "tmp", "download", "!qB"}

\* A variant: a managed-audio test that looks for the extension anywhere in the name
is_supported_anywhere(path) ==
    \E i \in 2..Len(path.name) : Lower(path.name[i]) \in {"mp3", "wav", "flac"}

is_supported_audio(path) == Lower(Suffix(path)) \in SUPPORTED_EXTENSIONS

\* '.part' in path.name.lower(): some component after a dot starts with "part"
ContainsDotPart(path) ==
    \E i \in 2..Len(path.name) : Lower(path.name[i]) \in {"part", "partial"}

_is_temp_file(path) ==
    Lower(Suffix(path)) \in TEMP_EXTENSIONS \/ ContainsDotPart(path)

(***************************************************************************)
(* State.  A Timer is kept while its thread is alive: a slot is free again *)
(* once the timer was cancelled during its wait or its callback returned.  *)
(***************************************************************************)
VARIABLES
    observer,        \* the one Observer thread: "initial", "started", "stopped"
    emitters,        \* handlers scheduled on the observer
    watched_paths,   \* WatchService.watched_paths: root -> handler id, 0 = no key
    is_running,      \* WatchService.is_running
    handlers,        \* every AudioFileHandler created: id -> the root it serves
    raised,          \* the last session operation raised to its caller
    pending_timers,  \* per handler: path -> slot of the Timer in the map, 0 = no key
    pending_files,   \* per handler: path -> event type, "" = no key
    timers,          \* slot -> the live threading.Timer in it
    catalog,         \* tracks table: path -> row, NoRow = no row
    signals,         \* library_updated emissions so far
    events,          \* events that passed a handler's filters so far
    visits,          \* scan visits so far
    burst,           \* per path: the events that armed a timer for it, see Burst
    processed,       \* per path: calls of _process_file by timer callbacks
    scanned,         \* per path: calls of _process_file by scan_folder
    upserts,         \* per path: calls of DBService.add_track
    survivors,       \* paths with an armed timer when remove_folder ran for another root
    pc,              \* statement view: thread -> the statement it is at
    arg,             \* statement view: thread -> the path it works on
    mutex,           \* statement view: holder of AudioFileHandler._lock
    dblock,          \* statement view: holder of DBService.lock
    tracks,          \* statement view: the rows of the tracks table, in rowid order
    registered,      \* statement view: _pending_timers, path -> timer thread
    cache,           \* MusicBrainz cache directory: key -> entry, NoEntry = no file
    now,             \* datetime.now(), in hours
    http,            \* HTTP requests sent by session.get so far
    returned         \* the last MusicBrainzService call and what it returned

vars == << observer, emitters, watched_paths, is_running, handlers, raised,
           pending_timers, pending_files, timers, catalog, signals, events,
           visits, burst, processed, scanned, upserts, survivors,
           pc, arg, mutex, dblock, tracks, registered,
           cache, now, http, returned >>

Slots == 1..MaxTimers

HandlerSlots == 1..MaxHandlers

HandlerIds == 1..Len(handlers)

NoRow == [title |-> "-", artist |-> "-", album |-> "-",
          genre |-> "-", year |-> "-", duration |-> "-"]

FreeTimer == [st |-> "free", h |-> 0, path |-> NoPath, kind |-> "",
              size1 |-> 0, size2 |-> 0, ev |-> 0, by |-> "", src |-> ""]

(***************************************************************************)
(* The statement view.  The same code, one step per statement that takes   *)
(* or releases a lock or does I/O, for one handler: the observer's         *)
(* dispatch thread ("event"), the Timer threads and the thread that runs   *)
(* scan_library ("scan").  pc is the statement a thread is about to        *)
(* execute, "idle" when it is not running.                                 *)
(***************************************************************************)
TimerThreads == {"timer1", "timer2"}

Threads == {"event", "scan"} \cup TimerThreads

\* the managed audio files of the handler's root
AudioPaths == { p \in FilesUnder("r1") : is_supported_audio(p) /\ ~_is_temp_file(p) }

\* what a thread works on: the path, and for on_moved the old path
NoArg == [path |-> NoPath, old |-> NoPath]

Statement == << pc, arg, mutex, dblock, tracks, registered >>

(***************************************************************************)
(* MusicBrainzService: the result cache.  A cache key is the normalized    *)
(* (artist, title, duration); durations are in tenths of a second,         *)
(* NoDuration stands for None.  A result is "None", the empty dict "{}"    *)
(* or one of two recordings.                                               *)
(***************************************************************************)
CACHE_DURATION_HOURS == 24

\* the clock advances in steps of this many hours
ClockStep == 12

NoDuration == 0 - 1

Artists == {"Artist", "artist", ""}

Titles == {"Song"}

Durations == {NoDuration, 0, 1800, 1805}

Results == {"{}", "Rec1", "Rec2"}

\* _get_cache_key: lower(), strip() (no name of the model has outer blanks),
\* int(duration) if duration else 0
_get_cache_key(artist, title, duration) ==
    << Lower(artist), Lower(title),
       IF duration = NoDuration \/ duration = 0 THEN 0 ELSE duration \div 10 >>

Keys == { _get_cache_key(a, t, d) : a \in Artists \ {""}, t \in Titles, d \in Durations }

NoEntry == [cached_at |-> 0 - 1, result |-> "None"]

NoCall == [op |-> "", key |-> << >>, found |-> "", value |-> "None"]

CacheVars == << cache, now, http, returned >>

\* everything the statement view and the cache add to the state
Aside == << Statement, CacheVars >>

Init ==
    /\ observer = "initial"
    /\ emitters = {}
    /\ watched_paths = [r \in RootNames |-> 0]
    /\ is_running = FALSE
    /\ handlers = << >>
    /\ raised = FALSE
    /\ pending_timers = [h \in HandlerSlots |-> [p \in Paths |-> 0]]
    /\ pending_files = [h \in HandlerSlots |-> [p \in Paths |-> ""]]
    /\ timers = [t \in Slots |-> FreeTimer]
    /\ catalog = [p \in Paths |-> NoRow]
    /\ signals = 0
    /\ events = 0
    /\ visits = 0
    /\ burst = [p \in Paths |-> [n |-> 0, ok |-> TRUE]]
    /\ processed = [p \in Paths |-> 0]
    /\ scanned = [p \in Paths |-> 0]
    /\ upserts = [p \in Paths |-> 0]
    /\ survivors = {}
    /\ pc = [th \in Threads |-> "idle"]
    /\ arg = [th \in Threads |-> NoArg]
    /\ mutex = "none"
    /\ dblock = "none"
    /\ tracks = << >>
    /\ registered = [p \in AudioPaths |-> "none"]
    /\ cache = [k \in Keys |-> NoEntry]
    /\ now = 0
    /\ http = 0
    /\ returned = NoCall

(***************************************************************************)
(* WatchService.  The session operations are written as functions of the   *)
(* fields they can reach, so that remove_folder can call stop_watching and *)
(* start_watching the way the code does.  The timers are reachable from    *)
(* the session through its handlers; no session operation touches them.    *)
(***************************************************************************)
Session == [observer |-> observer, emitters |-> emitters,
            watched_paths |-> watched_paths, is_running |-> is_running,
            handlers |-> handlers, raised |-> FALSE, timers |-> timers,
            pending_timers |-> pending_timers, pending_files |-> pending_files]

\* Observer.stop() and join(): the thread ends and drops its watches and handlers.
ObserverStop(s) == [s EXCEPT !.observer = "stopped", !.emitters = {}]

\* Observer.start(): Observer is a threading.Thread; a thread that was started
\* once cannot be started again, start() then raises RuntimeError.
ObserverCanStart(s) == s.observer = "initial"

\* AudioFileHandler(...) with its two empty maps, observer.schedule(handler, path)
\* and watched_paths[folder_path] = handler
ScheduleHandler(s, folder_path) ==
    LET id == Len(s.handlers) + 1
    IN  [s EXCEPT !.handlers = Append(@, folder_path),
                  !.emitters = @ \cup {id},
                  !.watched_paths[folder_path] = id]

\* A variant: stop_watching that also cancels every timer and empties the pending maps
stop_watching_cancelling(s) ==
    IF s.is_running
    THEN [ObserverStop(s) EXCEPT
              !.watched_paths = [r \in RootNames |-> 0],
              !.is_running = FALSE,
              !.timers = [t \in Slots |-> FreeTimer],
              !.pending_timers = [h \in HandlerSlots |-> [p \in Paths |-> 0]],
              !.pending_files = [h \in HandlerSlots |-> [p \in Paths |-> ""]]]
    ELSE s

stop_watching(s) ==
    IF s.is_running
    THEN [ObserverStop(s) EXCEPT !.watched_paths = [r \in RootNames |-> 0],
                                 !.is_running = FALSE]
    ELSE s

RECURSIVE StartLoop(_, _, _)
\* the for loop of start_watching over folder_paths[i..]
StartLoop(s, folder_paths, i) ==
    IF i > Len(folder_paths) THEN s
    ELSE IF ~IsDir(folder_paths[i])
         THEN StartLoop(s, folder_paths, i + 1)
         ELSE StartLoop(ScheduleHandler(s, folder_paths[i]), folder_paths, i + 1)

start_watching(s, folder_paths) ==
    LET s1 == IF s.is_running THEN stop_watching(s) ELSE s
        s2 == StartLoop(s1, folder_paths, 1)
    IN  IF \E r \in RootNames : s2.watched_paths[r] # 0
        THEN IF ObserverCanStart(s2)
             THEN [s2 EXCEPT !.observer = "started", !.is_running = TRUE]
             ELSE [s2 EXCEPT !.raised = TRUE]
        ELSE s2

add_folder(s, folder_path) ==
    IF ~IsDir(folder_path) THEN s
    ELSE IF s.watched_paths[folder_path] # 0 THEN s
    ELSE LET s1 == ScheduleHandler(s, folder_path)
         IN  IF s1.is_running THEN s1
             ELSE IF ObserverCanStart(s1)
                  THEN [s1 EXCEPT !.observer = "started", !.is_running = TRUE]
                  ELSE s1     \* RuntimeError caught and logged by add_folder

RECURSIVE KeyList(_, _)
\* list(watched_paths.keys()) restricted to the key set K, in insertion order
KeyList(s, K) ==
    IF K = {} THEN << >>
    ELSE LET k == CHOOSE x \in K :
                     \A y \in K : s.watched_paths[x] <= s.watched_paths[y]
         IN  << k >> \o KeyList(s, K \ {k})

remove_folder(s, folder_path) ==
    IF s.watched_paths[folder_path] = 0 THEN s
    ELSE LET current_folders ==
                 KeyList(s, { r \in RootNames : s.watched_paths[r] # 0 }
                            \ {folder_path})
             s1 == stop_watching(s)
         IN  IF current_folders # << >>
             THEN start_watching(s1, current_folders)
             ELSE s1

\* the session's fields after an operation
SetSession(s) ==
    /\ Len(s.handlers) <= MaxHandlers
    /\ observer' = s.observer
    /\ emitters' = s.emitters
    /\ watched_paths' = s.watched_paths
    /\ is_running' = s.is_running
    /\ handlers' = s.handlers
    /\ raised' = s.raised
    /\ timers' = s.timers
    /\ pending_timers' = s.pending_timers
    /\ pending_files' = s.pending_files

SeqsUpTo(S, n) == UNION { [1..k -> S] : k \in 0..n }

Ghosts == << visits, burst, processed, scanned, upserts >>

StartWatching(folder_paths) ==
    /\ SetSession(start_watching(Session, folder_paths))
    /\ UNCHANGED << Aside, catalog, signals, events, Ghosts, survivors >>

StopWatching ==
    /\ SetSession(stop_watching(Session))
    /\ UNCHANGED << Aside, catalog, signals, events, Ghosts, survivors >>

AddFolder(folder_path) ==
    /\ SetSession(add_folder(Session, folder_path))
    /\ UNCHANGED << Aside, catalog, signals, events, Ghosts, survivors >>

RemoveFolder(folder_path) ==
    /\ SetSession(remove_folder(Session, folder_path))
    /\ survivors' = IF watched_paths[folder_path] = 0 THEN survivors
                    ELSE survivors \cup
                         { timers[t].path : t \in
                             { u \in Slots :
                                 /\ timers[u].st = "armed"
                                 /\ timers[u].path.root # folder_path
                                 /\ watched_paths[timers[u].path.root] # 0 } }
    /\ UNCHANGED << Aside, catalog, signals, events, Ghosts >>

(***************************************************************************)
(* DBService (tracks table) and IndexService._process_file.                *)
(***************************************************************************)
\* INSERT OR IGNORE INTO tracks ...: path is UNIQUE, an existing row is kept
add_track(cat, path, title, artist, album, genre, year, duration) ==
    IF cat[path] # NoRow THEN cat
    ELSE [cat EXCEPT ![path] = [title |-> title, artist |-> artist,
                                album |-> album, genre |-> genre,
                                year |-> year, duration |-> duration]]

\* DELETE FROM tracks WHERE path = ?
delete_track(cat, path) == [cat EXCEPT ![path] = NoRow]

\* What _process_file finds: "missing" file_path.exists() is false; otherwise
\* what mutagen.File(path, easy=True) does: "ok" it returns the tags, "none"
\* it returns None (no known format), "raises" it raises.
FileOutcomes == {"missing", "ok", "none", "raises"}

\* the values read from a file with readable tags
TagTitle == "Title"

TagArtist == "Artist"

TagAlbum == "Album"

TagLength == "180.0"

\* _process_file reaches self.db.add_track(...) iff the file exists and
\* mutagen.File did not raise; every exception is caught and logged
ReachesAddTrack(file) == file \in {"ok", "none"}

\* IndexService._process_file: the catalog afterwards.  add_track is called
\* with five positional arguments: path, title, artist, album, duration.
process_file(cat, path, file) ==
    IF ~ReachesAddTrack(file) THEN cat
    ELSE IF file = "ok"
         THEN add_track(cat, path, TagTitle, TagArtist, TagAlbum, TagLength, "None", "0")
         ELSE add_track(cat, path, "", "", "", "0", "None", "0")

(***************************************************************************)
(* AudioFileHandler.  A timer's st is the progress of its thread:          *)
(*   "armed"    started, waiting for the debounce delay                    *)
(*   "fired"    the wait is over, process_file is about to take _lock      *)
(*   "removed"  process_file has left its locked section                   *)
(*   "index"    the probe let the file through, _process_file is next      *)
(* kind is the event_type its closure holds, size1 and size2 the locals of *)
(* the probe.  ev, by and src are history: the ordinal of the event that   *)
(* armed the timer, who armed it ("event", or "retry": the probe of an     *)
(* earlier timer) and, for a rename, whether the old path was a download   *)
(* artifact ("temp") or not ("renamed"); a re-armed timer keeps the ev and *)
(* src of the timer it replaces.                                           *)
(***************************************************************************)
Sizes == {100, 140}

\* path.stat() raised
StatFailed == 0 - 1

\* who armed a timer
Origin(old_path) == IF _is_temp_file(old_path) THEN "temp" ELSE "renamed"

Armed(ev, by, src) == [ev |-> ev, by |-> by, src |-> src]

NewTimer(h, path, event_type, a) ==
    [st |-> "armed", h |-> h, path |-> path, kind |-> event_type,
     size1 |-> 0, size2 |-> 0, ev |-> a.ev, by |-> a.by, src |-> a.src]

\* A variant: cancel() that leaves the timer armed
TimerCancelIgnored(tm, t) == tm

\* A variant: cancel() that stops a timer even after its wait has ended
TimerCancelLate(tm, t) == [tm EXCEPT ![t] = FreeTimer]

\* Timer.cancel(): sets the finished flag, which run() tests once after its wait;
\* the thread of a waiting timer ends, a timer whose wait is over is not stopped
TimerCancel(tm, t) ==
    IF tm[t].st = "armed" THEN [tm EXCEPT ![t] = FreeTimer] ELSE tm

Handlers == [timers |-> timers, pending_timers |-> pending_timers,
             pending_files |-> pending_files, full |-> FALSE]

\* A variant: scheduling a path cancels every waiting timer of the handler
\* and empties its maps before it stores the new timer
schedule_process_alone(w, h, path, event_type, a) ==
    LET tm   == [t \in Slots |->
                    IF w.timers[t].st = "armed" /\ w.timers[t].h = h
                    THEN FreeTimer ELSE w.timers[t]]
        free == { t \in Slots : tm[t].st = "free" }
    IN  IF free = {} THEN [w EXCEPT !.full = TRUE]
        ELSE LET id == CHOOSE t \in free : \A u \in free : t <= u
             IN  [w EXCEPT
                    !.timers = [tm EXCEPT ![id] = NewTimer(h, path, event_type, a)],
                    !.pending_timers[h] = [q \in Paths |-> IF q = path THEN id ELSE 0],
                    !.pending_files[h] = [q \in Paths |-> IF q = path THEN event_type ELSE ""]]

\* the locked section of _schedule_process: cancel the timer in the map,
\* create and start a new one, store it
schedule_process(w, h, path, event_type, a) ==
    LET old  == w.pending_timers[h][path]
        tm   == IF old # 0 THEN TimerCancel(w.timers, old) ELSE w.timers
        free == { t \in Slots : tm[t].st = "free" }
    IN  IF free = {} THEN [w EXCEPT !.full = TRUE]
        ELSE LET id == CHOOSE t \in free : \A u \in free : t <= u
             IN  [w EXCEPT
                    !.timers = [tm EXCEPT ![id] = NewTimer(h, path, event_type, a)],
                    !.pending_timers[h][path] = id,
                    !.pending_files[h][path] = event_type]

\* the locked section of on_moved for the old path
cancel_old(w, h, old_path) ==
    LET old == w.pending_timers[h][old_path]
    IN  IF old = 0 THEN w
        ELSE [w EXCEPT !.timers = TimerCancel(w.timers, old),
                       !.pending_timers[h][old_path] = 0,
                       !.pending_files[h][old_path] = ""]

SetHandlers(w) ==
    /\ ~w.full
    /\ timers' = w.timers
    /\ pending_timers' = w.pending_timers
    /\ pending_files' = w.pending_files

\* the observer thread dispatches an event on path to handler h
Delivers(h, path) ==
    /\ observer = "started"
    /\ h \in emitters
    /\ path \in FilesUnder(handlers[h])
    /\ events < MaxEvents

\* the handler let the event through its filters
Accepted == events' = events + 1

\* the handler returned without doing anything
Ignored == UNCHANGED << timers, pending_timers, pending_files, catalog,
                        signals, events, burst >>

\* History of a path's events.  n counts the events that armed a timer for
\* the path; ok says that they were all created/modified events, each
\* delivered while the timer of the one before was still waiting, and that
\* no deleted or moved event touched the path.
Burst(path) ==
    [n  |-> burst[path].n + 1,
     ok |-> /\ burst[path].ok
            /\ \/ burst[path].n = 0
               \/ \E t \in Slots : /\ timers[t].st = "armed"
                                   /\ timers[t].path = path
                                   /\ timers[t].by = "event"
                                   /\ timers[t].ev = burst[path].n]

Broken(b, path, armed) ==
    [b EXCEPT ![path] = [n |-> IF armed THEN @.n + 1 ELSE @.n, ok |-> FALSE]]

SessionVars == << observer, emitters, watched_paths, is_running, handlers, raised >>

Counts == << visits, processed, scanned, upserts, survivors >>

on_created(h, path) ==
    /\ Delivers(h, path)
    /\ IF ~_is_temp_file(path) /\ is_supported_audio(path)
       THEN /\ SetHandlers(schedule_process(Handlers, h, path, "new",
                                Armed(burst[path].n + 1, "event", "")))
            /\ burst' = [burst EXCEPT ![path] = Burst(path)]
            /\ Accepted
            /\ UNCHANGED << catalog, signals >>
       ELSE Ignored
    /\ UNCHANGED << Aside, SessionVars, Counts >>

on_modified(h, path, exists) ==
    /\ Delivers(h, path)
    /\ IF ~_is_temp_file(path) /\ is_supported_audio(path) /\ exists
       THEN /\ SetHandlers(schedule_process(Handlers, h, path, "modified",
                                Armed(burst[path].n + 1, "event", "")))
            /\ burst' = [burst EXCEPT ![path] = Burst(path)]
            /\ Accepted
            /\ UNCHANGED << catalog, signals >>
       ELSE Ignored
    /\ UNCHANGED << Aside, SessionVars, Counts >>

on_deleted(h, path) ==
    /\ Delivers(h, path)
    /\ IF is_supported_audio(path)
       THEN /\ catalog' = delete_track(catalog, path)
            /\ signals' = signals + 1
            /\ burst' = Broken(burst, path, FALSE)
            /\ Accepted
            /\ UNCHANGED << timers, pending_timers, pending_files >>
       ELSE Ignored
    /\ UNCHANGED << Aside, SessionVars, Counts >>

\* A variant: every rename from a transient name to an existing file counts
\* as a completed download
DownloadCompletedAnyName(old_path, new_path, new_exists) ==
    _is_temp_file(old_path) /\ new_exists

\* on_moved, the test inside the transient branch: temp -> audio that exists
DownloadCompleted(old_path, new_path, new_exists) ==
    /\ _is_temp_file(old_path)
    /\ is_supported_audio(new_path)
    /\ new_exists

on_moved(h, old_path, new_path, new_exists) ==
    /\ Delivers(h, old_path)
    /\ new_path \in FilesUnder(handlers[h])
    /\ new_path # old_path
    /\ IF _is_temp_file(old_path) \/ _is_temp_file(new_path)
       THEN IF DownloadCompleted(old_path, new_path, new_exists)
            THEN /\ SetHandlers(schedule_process(Handlers, h, new_path, "moved",
                                Armed(burst[new_path].n + 1, "event", Origin(old_path))))
                 /\ burst' = Broken(burst, new_path, TRUE)
                 /\ Accepted
                 /\ UNCHANGED << catalog, signals >>
            ELSE Ignored
       ELSE IF is_supported_audio(new_path) /\ new_exists
       THEN /\ SetHandlers(schedule_process(cancel_old(Handlers, h, old_path),
                                h, new_path, "moved",
                                Armed(burst[new_path].n + 1, "event", Origin(old_path))))
            /\ catalog' = delete_track(catalog, old_path)
            /\ burst' = Broken(Broken(burst, old_path, FALSE), new_path, TRUE)
            /\ Accepted
            /\ UNCHANGED signals
       ELSE IF is_supported_audio(old_path)
       THEN /\ catalog' = delete_track(catalog, old_path)
            /\ signals' = signals + 1
            /\ burst' = Broken(burst, old_path, FALSE)
            /\ Accepted
            /\ UNCHANGED << timers, pending_timers, pending_files >>
       ELSE Ignored
    /\ UNCHANGED << Aside, SessionVars, Counts >>

\* A variant: a handler that takes no event for a directory event
IsDirectoryNever(is_directory) == FALSE

\* event.is_directory, the first test of each handler
IsDirectoryEvent(is_directory) == is_directory

\* The handlers as the observer calls them: the event carries src_path and
\* the is_directory flag, and a directory may have any name, a managed audio
\* name included.
OnCreated(h, path, is_directory) ==
    IF IsDirectoryEvent(is_directory)
    THEN Delivers(h, path) /\ Ignored /\ UNCHANGED << Aside, SessionVars, Counts >>
    ELSE on_created(h, path)

OnModified(h, path, exists, is_directory) ==
    IF IsDirectoryEvent(is_directory)
    THEN Delivers(h, path) /\ Ignored /\ UNCHANGED << Aside, SessionVars, Counts >>
    ELSE on_modified(h, path, exists)

OnDeleted(h, path, is_directory) ==
    IF IsDirectoryEvent(is_directory)
    THEN Delivers(h, path) /\ Ignored /\ UNCHANGED << Aside, SessionVars, Counts >>
    ELSE on_deleted(h, path)

OnMoved(h, old_path, new_path, new_exists, is_directory) ==
    IF IsDirectoryEvent(is_directory)
    THEN /\ Delivers(h, old_path)
         /\ new_path \in FilesUnder(handlers[h])
         /\ new_path # old_path
         /\ Ignored
         /\ UNCHANGED << Aside, SessionVars, Counts >>
    ELSE on_moved(h, old_path, new_path, new_exists)

(***************************************************************************)
(* The timer thread: Timer.run and the closure process_file.               *)
(***************************************************************************)
\* Timer.run: the wait ended and the finished flag was not set
TimerFire(t) ==
    /\ timers[t].st = "armed"
    /\ timers' = [timers EXCEPT ![t].st = "fired"]
    /\ UNCHANGED << Aside, SessionVars, pending_timers, pending_files, catalog,
                    signals, events, burst, Counts >>

\* process_file, the locked section: delete the path's entries from both maps
TimerRemove(t) ==
    LET h == timers[t].h
        path == timers[t].path
    IN  /\ timers[t].st = "fired"
        /\ timers' = [timers EXCEPT ![t].st = "removed"]
        /\ pending_files' = [pending_files EXCEPT ![h][path] = ""]
        /\ pending_timers' = [pending_timers EXCEPT ![h][path] = 0]
        /\ UNCHANGED << Aside, SessionVars, catalog, signals, events, burst, Counts >>

\* What the probe reads: << path.exists(), first st_size, second st_size >>;
\* 0 stands for a stat that was not reached.
ProbeOutcomes ==
    { << FALSE, 0, 0 >>, << TRUE, StatFailed, 0 >> }
    \cup { << TRUE, a, b >> : a \in Sizes, b \in Sizes \cup {StatFailed} }

\* A variant: only a file that grew between the two samples is rescheduled
SizeGrew(size1, size2) ==
    size1 # StatFailed /\ size2 # StatFailed /\ size1 < size2

\* size1 != size2 was evaluated and true: both stats returned
SizeChanged(size1, size2) ==
    size1 # StatFailed /\ size2 # StatFailed /\ size1 # size2

\* process_file from path.exists() to the end of the size probe
TimerProbe(t, seen) ==
    LET h == timers[t].h
        path == timers[t].path
    IN  /\ timers[t].st = "removed"
        /\ IF ~seen[1]
           THEN /\ timers' = [timers EXCEPT ![t] = FreeTimer]
                /\ UNCHANGED << pending_timers, pending_files >>
           ELSE IF SizeChanged(seen[2], seen[3])
           THEN SetHandlers(schedule_process(
                    [Handlers EXCEPT !.timers[t] = FreeTimer],
                    h, path, timers[t].kind,
                    Armed(timers[t].ev, "retry", timers[t].src)))
           ELSE /\ timers' = [timers EXCEPT ![t].st = "index",
                                            ![t].size1 = seen[2],
                                            ![t].size2 = seen[3]]
                /\ UNCHANGED << pending_timers, pending_files >>
        /\ UNCHANGED << Aside, SessionVars, catalog, signals, events, burst, Counts >>

\* process_file from index_service._process_file(path) to update_signal.emit()
TimerIndex(t, file) ==
    LET path == timers[t].path
    IN  /\ timers[t].st = "index"
        /\ timers' = [timers EXCEPT ![t] = FreeTimer]
        /\ catalog' = process_file(catalog, path, file)
        /\ processed' = [processed EXCEPT ![path] = @ + 1]
        /\ upserts' = [upserts EXCEPT ![path] =
                          IF ReachesAddTrack(file) THEN @ + 1 ELSE @]
        /\ signals' = signals + 1
        /\ UNCHANGED << Aside, SessionVars, pending_timers, pending_files, events,
                        burst, visits, scanned, survivors >>

(***************************************************************************)
(* IndexService.scan_folder: one pass of its loop over folder.rglob("*").  *)
(***************************************************************************)
ScanVisit(folder_path, file_path, file) ==
    /\ IsDir(folder_path)
    /\ file_path \in FilesUnder(folder_path)
    /\ visits < MaxScanVisits
    /\ visits' = visits + 1
    /\ IF is_supported_audio(file_path)
       THEN /\ catalog' = process_file(catalog, file_path, file)
            /\ scanned' = [scanned EXCEPT ![file_path] = @ + 1]
            /\ upserts' = [upserts EXCEPT ![file_path] =
                              IF ReachesAddTrack(file) THEN @ + 1 ELSE @]
       ELSE UNCHANGED << catalog, scanned, upserts >>
    /\ UNCHANGED << Aside, SessionVars, timers, pending_timers, pending_files,
                    signals, events, burst, processed, survivors >>

(***************************************************************************)
(* The system.                                                             *)
(***************************************************************************)
SessionStep ==
    \/ \E folder_paths \in SeqsUpTo(RootNames, MaxRootList) : StartWatching(folder_paths)
    \/ StopWatching
    \/ \E r \in RootNames : AddFolder(r)
    \/ \E r \in RootNames : RemoveFolder(r)

EventStep ==
    \E h \in emitters : \E path \in FilesUnder(handlers[h]) :
        \/ on_created(h, path)
        \/ \E exists \in BOOLEAN : on_modified(h, path, exists)
        \/ on_deleted(h, path)
        \/ \E new_path \in FilesUnder(handlers[h]), exists \in BOOLEAN :
              on_moved(h, path, new_path, exists)

TimerStep ==
    \E t \in Slots :
        \/ TimerFire(t)
        \/ TimerRemove(t)
        \/ \E seen \in ProbeOutcomes : TimerProbe(t, seen)
        \/ \E file \in FileOutcomes : TimerIndex(t, file)

ScanStep ==
    \E r \in RootNames : \E path \in FilesUnder(r), file \in FileOutcomes :
        ScanVisit(r, path, file)

Next == SessionStep \/ EventStep \/ TimerStep \/ ScanStep

Spec == Init /\ [][Next]_vars

(***************************************************************************)
(* Scenarios: the same operations with the environment narrowed.           *)
(***************************************************************************)
\* One watched root, every event on its files, the timers.
NextDebounce == AddFolder("r1") \/ EventStep \/ TimerStep

SpecDebounce == Init /\ [][NextDebounce]_vars

\* Scenario: the root whose files include a managed audio name that
\* contains '.part'.
NextPartName == AddFolder("r2") \/ EventStep \/ TimerStep

SpecPartName == Init /\ [][NextPartName]_vars

\* Scenario: one watched root, a scan that finds a readable audio file, and
\* events of both kinds: for files and for directories carrying the same names.
ObserverEvent ==
    \E h \in emitters : \E path \in FilesUnder(handlers[h]) :
        \E is_directory \in BOOLEAN :
            \/ OnCreated(h, path, is_directory)
            \/ \E exists \in BOOLEAN : OnModified(h, path, exists, is_directory)
            \/ OnDeleted(h, path, is_directory)
            \/ \E new_path \in FilesUnder(handlers[h]), exists \in BOOLEAN :
                  OnMoved(h, path, new_path, exists, is_directory)

ObserverScan ==
    \E path \in FilesUnder("r1") : is_supported_audio(path) /\ ScanVisit("r1", path, "ok")

NextObserver == AddFolder("r1") \/ ObserverEvent \/ TimerStep \/ ObserverScan

SpecObserver == Init /\ [][NextObserver]_vars

\* One watched root and nothing but created and modified events.
BurstEvent ==
    \E h \in emitters : \E path \in FilesUnder(handlers[h]) :
        \/ on_created(h, path)
        \/ \E exists \in BOOLEAN : on_modified(h, path, exists)

NextBurst == AddFolder("r1") \/ BurstEvent \/ TimerStep

SpecBurst == Init /\ [][NextBurst]_vars

\* One watched root, the events in which a download artifact appears, the
\* timers and the full scan.
TransientEvent ==
    \E h \in emitters : \E path \in FilesUnder(handlers[h]) :
        \/ _is_temp_file(path) /\ on_created(h, path)
        \/ \E exists \in BOOLEAN : _is_temp_file(path) /\ on_modified(h, path, exists)
        \/ _is_temp_file(path) /\ on_deleted(h, path)
        \/ \E new_path \in FilesUnder(handlers[h]), exists \in BOOLEAN :
              /\ _is_temp_file(path) \/ _is_temp_file(new_path)
              /\ on_moved(h, path, new_path, exists)

NextTransient == AddFolder("r1") \/ TransientEvent \/ TimerStep \/ ScanStep

SpecTransient == Init /\ [][NextTransient]_vars

\* The session operations; one file per root is created, stays on disk with
\* a steady size and has readable tags.
SessionEvent ==
    \E h \in emitters : on_created(h, MkPath(handlers[h], "a", <<"song", "mp3">>))

SessionTimer ==
    \E t \in Slots :
        \/ TimerFire(t)
        \/ TimerRemove(t)
        \/ TimerProbe(t, << TRUE, 100, 100 >>)
        \/ TimerIndex(t, "ok")

NextSession == SessionStep \/ SessionEvent \/ SessionTimer

SpecSession == Init /\ [][NextSession]_vars

\* Scenario for what a settled event leads to: one watched root; each managed
\* path gets one created, modified or moved-in event and none after it; the
\* file is on disk at every firing; nothing stops the session.
SettleEvent ==
    \E h \in emitters : \E path \in AudioPaths :
        /\ path \in FilesUnder(handlers[h])
        /\ burst[path].n = 0
        /\ \/ on_created(h, path)
           \/ on_modified(h, path, TRUE)
           \/ \E old_path \in FilesUnder(handlers[h]) :
                 _is_temp_file(old_path) /\ on_moved(h, old_path, path, TRUE)

\* a probe that reads the same size twice
SteadyProbe(t) == \E size \in Sizes : TimerProbe(t, << TRUE, size, size >>)

SettleIndex(t) == \E file \in FileOutcomes \ {"missing"} : TimerIndex(t, file)

SettleTimer ==
    \E t \in Slots :
        \/ TimerFire(t)
        \/ TimerRemove(t)
        \/ \E size1, size2 \in Sizes : TimerProbe(t, << TRUE, size1, size2 >>)
        \/ SettleIndex(t)

NextSettle == AddFolder("r1") \/ SettleEvent \/ SettleTimer

\* Timer threads run: a wait that ended is followed by the callback, and the
\* callback goes on to its end.  The file's size stops changing at some
\* time, so a probe cannot read two different sizes forever.
SettleFairness ==
    \A t \in Slots :
        /\ WF_vars(TimerFire(t))
        /\ WF_vars(TimerRemove(t))
        /\ SF_vars(SteadyProbe(t))
        /\ WF_vars(SettleIndex(t))

SpecSettle == Init /\ [][NextSettle]_vars /\ SettleFairness

\* Scenario for what follows a deletion by a handler: one watched root, a
\* scan that finds readable audio files, deleted and renamed events for
\* managed paths, and timers that may find the file gone or still changing.
NotifyEvent ==
    \E h \in emitters : \E path \in AudioPaths :
        /\ path \in FilesUnder(handlers[h])
        /\ \/ on_deleted(h, path)
           \/ \E new_path \in AudioPaths, exists \in BOOLEAN :
                 on_moved(h, path, new_path, exists)

NextNotify == AddFolder("r1") \/ ObserverScan \/ NotifyEvent \/ TimerStep

\* Timer threads run: each step of a timer's thread is eventually taken,
\* with whatever the file system shows it.
NotifyFairness ==
    \A t \in Slots :
        /\ WF_vars(TimerFire(t))
        /\ WF_vars(TimerRemove(t))
        /\ WF_vars(\E seen \in ProbeOutcomes : TimerProbe(t, seen))
        /\ WF_vars(\E file \in FileOutcomes : TimerIndex(t, file))

SpecNotify == Init /\ [][NextNotify]_vars /\ NotifyFairness

(***************************************************************************)
(* The statement view: locks and the tracks table.                         *)
(***************************************************************************)
\* the variables of the event view, and with the cache's those that the
\* statement view leaves alone
Watch == << SessionVars, pending_timers, pending_files, timers, catalog,
            signals, events, burst, Counts >>

Coarse == << Watch, CacheVars >>

\* A variant: a with block that is left without releasing the lock
ReleaseForgotten(l, th) == l

\* leaving a with block of lock l
Release(l, th) == IF l = th THEN "none" ELSE l

\* A variant: a plain INSERT into a table without the UNIQUE constraint
InsertPlain(rows, path) == Append(rows, path)

\* INSERT OR IGNORE INTO tracks: path is UNIQUE, a row with the path stays
InsertOrIgnore(rows, path) ==
    IF \E i \in DOMAIN rows : rows[i] = path THEN rows ELSE Append(rows, path)

\* DELETE FROM tracks WHERE path = ?
DeleteWhere(rows, path) == SelectSeq(rows, LAMBDA r : r # path)

Goto(th, label) == pc' = [pc EXCEPT ![th] = label]

\* the statement after IndexService._process_file returns
AfterProcessFile(th) == IF th = "scan" THEN "scan" ELSE "emit"

\* A variant: the handler runs the size probe itself
HandlerProbes == "probe"

\* what on_created and on_modified do with a file that passed the filters:
\* self._schedule_process(path, ...)
HandlerCalls == "schedule"

\* on_created, on_modified: the filters passed, _schedule_process is called
DispatchCreated(path) ==
    /\ pc["event"] = "idle"
    /\ \E t \in TimerThreads : pc[t] = "idle"
    /\ Goto("event", HandlerCalls)
    /\ arg' = [arg EXCEPT !["event"] = [path |-> path, old |-> NoPath]]
    /\ UNCHANGED << mutex, dblock, tracks, registered, Coarse >>

\* on_deleted, and on_moved when only the old path is managed audio
DispatchDeleted(path) ==
    /\ pc["event"] = "idle"
    /\ Goto("event", "delete_track")
    /\ arg' = [arg EXCEPT !["event"] = [path |-> path, old |-> NoPath]]
    /\ UNCHANGED << mutex, dblock, tracks, registered, Coarse >>

\* on_moved between two managed audio paths, the new one present
DispatchMoved(old_path, new_path) ==
    /\ pc["event"] = "idle"
    /\ old_path # new_path
    /\ \E t \in TimerThreads : pc[t] = "idle"
    /\ Goto("event", "moved")
    /\ arg' = [arg EXCEPT !["event"] = [path |-> new_path, old |-> old_path]]
    /\ UNCHANGED << mutex, dblock, tracks, registered, Coarse >>

\* with self._lock: of on_moved, of _schedule_process and of process_file
Lock(th) ==
    /\ pc[th] \in {"moved", "schedule", "callback"}
    /\ mutex = "none"
    /\ mutex' = th
    /\ Goto(th, CASE pc[th] = "moved" -> "moved_locked"
                  [] pc[th] = "schedule" -> "schedule_locked"
                  [] pc[th] = "callback" -> "callback_locked")
    /\ UNCHANGED << arg, dblock, tracks, registered, Coarse >>

\* on_moved, inside the lock: cancel the old path's timer, delete its entries
MovedLocked(th) ==
    LET t == registered[arg[th].old]
    IN  /\ pc[th] = "moved_locked"
        /\ pc' = [u \in Threads |->
                     IF u = th THEN "delete_track"
                     ELSE IF u = t /\ pc[u] = "wait" THEN "idle" ELSE pc[u]]
        /\ registered' = [registered EXCEPT ![arg[th].old] = "none"]
        /\ mutex' = Release(mutex, th)
        /\ UNCHANGED << arg, dblock, tracks, Coarse >>

\* _schedule_process, inside the lock: cancel the timer in the map, create,
\* store and start the new one.  A callback that re-arms returns right after:
\* the new Timer thread takes its place.
ScheduleLocked(th) ==
    LET path == arg[th].path
        t    == registered[path]
        pc1  == [u \in Threads |-> IF u = t /\ pc[u] = "wait" THEN "idle" ELSE pc[u]]
        new  == IF th \in TimerThreads THEN th
                ELSE CHOOSE u \in TimerThreads : pc1[u] = "idle"
    IN  /\ pc[th] = "schedule_locked"
        /\ pc' = [u \in Threads |->
                     IF u = new THEN "wait" ELSE IF u = th THEN "idle" ELSE pc1[u]]
        /\ arg' = [u \in Threads |->
                      IF u = new THEN [path |-> path, old |-> NoPath]
                      ELSE IF u = th THEN NoArg ELSE arg[u]]
        /\ registered' = [registered EXCEPT ![path] = new]
        /\ mutex' = Release(mutex, th)
        /\ UNCHANGED << dblock, tracks, Coarse >>

\* Timer.run: the wait ended, the timer was not cancelled
WaitEnds(th) ==
    /\ pc[th] = "wait"
    /\ Goto(th, "callback")
    /\ UNCHANGED << arg, mutex, dblock, tracks, registered, Coarse >>

\* process_file, inside the lock: delete the path's entries
CallbackLocked(th) ==
    /\ pc[th] = "callback_locked"
    /\ registered' = [registered EXCEPT ![arg[th].path] = "none"]
    /\ mutex' = Release(mutex, th)
    /\ Goto(th, "exists")
    /\ UNCHANGED << arg, dblock, tracks, Coarse >>

\* process_file: if not path.exists(): return
Exists(th, exists) ==
    /\ pc[th] = "exists"
    /\ Goto(th, IF exists THEN "probe" ELSE "idle")
    /\ arg' = IF exists THEN arg ELSE [arg EXCEPT ![th] = NoArg]
    /\ UNCHANGED << mutex, dblock, tracks, registered, Coarse >>

\* process_file: stat, sleep(0.5), stat; "differs" re-arms, a stat that
\* raises and two equal sizes go on to the Indexer
Probe(th, seen) ==
    /\ pc[th] = "probe"
    /\ Goto(th, IF seen = "differs" THEN "schedule" ELSE "_process_file")
    /\ UNCHANGED << arg, mutex, dblock, tracks, registered, Coarse >>

\* IndexService._process_file up to the call of add_track
ProcessFile(th, file) ==
    /\ pc[th] = "_process_file"
    /\ Goto(th, IF ReachesAddTrack(file) THEN "add_track" ELSE AfterProcessFile(th))
    /\ UNCHANGED << arg, mutex, dblock, tracks, registered, Coarse >>

\* with self.lock: of DBService.add_track and DBService.delete_track (an RLock)
DbLock(th) ==
    /\ pc[th] \in {"add_track", "delete_track"}
    /\ dblock \in {"none", th}
    /\ dblock' = th
    /\ Goto(th, IF pc[th] = "add_track" THEN "add_track_locked"
                                         ELSE "delete_track_locked")
    /\ UNCHANGED << arg, mutex, tracks, registered, Coarse >>

\* DBService.add_track, inside the lock: execute and commit
AddTrackLocked(th) ==
    /\ pc[th] = "add_track_locked"
    /\ tracks' = InsertOrIgnore(tracks, arg[th].path)
    /\ dblock' = Release(dblock, th)
    /\ Goto(th, AfterProcessFile(th))
    /\ UNCHANGED << arg, mutex, registered, Coarse >>

\* DBService.delete_track, inside the lock: execute and commit; on_moved
\* deletes the old path and goes on to _schedule_process, on_deleted emits
DeleteTrackLocked(th) ==
    /\ pc[th] = "delete_track_locked"
    /\ tracks' = DeleteWhere(tracks, IF arg[th].old # NoPath THEN arg[th].old
                                                             ELSE arg[th].path)
    /\ dblock' = Release(dblock, th)
    /\ Goto(th, IF arg[th].old # NoPath THEN "schedule" ELSE "emit")
    /\ UNCHANGED << arg, mutex, registered, Coarse >>

\* self.update_signal.emit(), the last statement of the handler or callback
Emit(th) ==
    /\ pc[th] = "emit"
    /\ Goto(th, "idle")
    /\ arg' = [arg EXCEPT ![th] = NoArg]
    /\ UNCHANGED << mutex, dblock, tracks, registered, Coarse >>

\* MainWindow.scan_library calls scan_folder
ScanStart ==
    /\ pc["scan"] = "idle"
    /\ Goto("scan", "scan")
    /\ UNCHANGED << arg, mutex, dblock, tracks, registered, Coarse >>

\* scan_folder: the next file of rglob that is supported audio
ScanNext(path) ==
    /\ pc["scan"] = "scan"
    /\ Goto("scan", "_process_file")
    /\ arg' = [arg EXCEPT !["scan"] = [path |-> path, old |-> NoPath]]
    /\ UNCHANGED << mutex, dblock, tracks, registered, Coarse >>

\* scan_folder: rglob is exhausted
ScanEnd ==
    /\ pc["scan"] = "scan"
    /\ Goto("scan", "idle")
    /\ arg' = [arg EXCEPT !["scan"] = NoArg]
    /\ UNCHANGED << mutex, dblock, tracks, registered, Coarse >>

NextStatement ==
    \/ \E path \in AudioPaths : DispatchCreated(path)
    \/ \E path \in AudioPaths : DispatchDeleted(path)
    \/ \E old_path, new_path \in AudioPaths : DispatchMoved(old_path, new_path)
    \/ \E th \in {"event"} \cup TimerThreads : Lock(th)
    \/ MovedLocked("event")
    \/ \E th \in {"event"} \cup TimerThreads : ScheduleLocked(th)
    \/ \E th \in TimerThreads : WaitEnds(th)
    \/ \E th \in TimerThreads : CallbackLocked(th)
    \/ \E th \in TimerThreads, exists \in BOOLEAN : Exists(th, exists)
    \/ \E th \in TimerThreads, seen \in {"equal", "differs", "raises"} : Probe(th, seen)
    \/ \E th \in TimerThreads \cup {"scan"}, file \in FileOutcomes : ProcessFile(th, file)
    \/ \E th \in Threads : DbLock(th)
    \/ \E th \in TimerThreads \cup {"scan"} : AddTrackLocked(th)
    \/ DeleteTrackLocked("event")
    \/ \E th \in {"event"} \cup TimerThreads : Emit(th)
    \/ ScanStart
    \/ \E path \in AudioPaths : ScanNext(path)
    \/ ScanEnd

SpecStatement == Init /\ [][NextStatement]_vars

(***************************************************************************)
(* MusicBrainzService: _load_from_cache, _save_to_cache, search_track.     *)
(***************************************************************************)
\* A variant: an entry counts as expired as soon as it is as old as the lifetime
ExpiredAtLifetime(age) == age >= CACHE_DURATION_HOURS

\* datetime.now() - cache_time > timedelta(hours=CACHE_DURATION_HOURS)
Expired(age) == age > CACHE_DURATION_HOURS

\* the cache after the call, the value returned, and what the call found
_load_from_cache(c, key, t) ==
    IF c[key] = NoEntry
    THEN [cache |-> c, value |-> "None", found |-> "absent"]
    ELSE IF Expired(t - c[key].cached_at)
    THEN [cache |-> [c EXCEPT ![key] = NoEntry], value |-> "None",
          found |-> "expired"]
    ELSE [cache |-> c, value |-> c[key].result, found |-> "valid"]

_save_to_cache(c, key, result, t) ==
    [c EXCEPT ![key] = [cached_at |-> t, result |-> result]]

\* if cached_result: an empty dict and None are false
Truthy(value) == value \notin {"None", "{}"}

\* what the API answers: an error, no recordings, or a recording
Responses == {"error"} \cup Results

search_track(c, t, artist, title, duration, response) ==
    IF artist = "" \/ title = ""
    THEN [cache |-> c, value |-> "None", found |-> "", requests |-> 0]
    ELSE LET cache_key == _get_cache_key(artist, title, duration)
             l == _load_from_cache(c, cache_key, t)
         IN  IF Truthy(l.value)
             THEN [cache |-> l.cache, value |-> l.value, found |-> l.found,
                   requests |-> 0]
             ELSE IF response = "error"
             THEN [cache |-> l.cache, value |-> "None", found |-> l.found,
                   requests |-> 1]
             ELSE [cache |-> _save_to_cache(l.cache, cache_key, response, t),
                   value |-> IF response = "{}" THEN "None" ELSE response,
                   found |-> l.found, requests |-> 1]

SearchTrack(artist, title, duration, response) ==
    LET r == search_track(cache, now, artist, title, duration, response)
    IN  /\ http < MaxRequests
        /\ cache' = r.cache
        /\ http' = http + r.requests
        /\ returned' = [op |-> "search",
                        key |-> IF artist = "" \/ title = "" THEN << >>
                                ELSE _get_cache_key(artist, title, duration),
                        found |-> r.found, value |-> r.value]
        /\ UNCHANGED << now, Watch, Statement >>

LoadFromCache(key) ==
    LET l == _load_from_cache(cache, key, now)
    IN  /\ cache' = l.cache
        /\ returned' = [op |-> "load", key |-> key, found |-> l.found,
                        value |-> l.value]
        /\ UNCHANGED << now, http, Watch, Statement >>

SaveToCache(key, result) ==
    /\ cache' = _save_to_cache(cache, key, result, now)
    /\ returned' = [op |-> "save", key |-> key, found |-> "", value |-> "None"]
    /\ UNCHANGED << now, http, Watch, Statement >>

\* time passes
Tick ==
    /\ now + ClockStep <= MaxClock
    /\ now' = now + ClockStep
    /\ UNCHANGED << cache, http, returned, Watch, Statement >>

NextCache ==
    \/ \E artist \in Artists, title \in Titles, duration \in Durations,
          response \in Responses : SearchTrack(artist, title, duration, response)
    \/ \E key \in Keys : LoadFromCache(key)
    \/ \E key \in Keys, result \in Results : SaveToCache(key, result)
    \/ Tick

SpecCache == Init /\ [][NextCache]_vars

(***************************************************************************)
(* Properties.                                                             *)
(***************************************************************************)
\* The timers of a path that have not been cancelled and whose callback has
\* not returned, and those of them that are still waiting.
Live(path) == { t \in Slots : timers[t].st # "free" /\ timers[t].path = path }

Waiting(path) == { t \in Slots : timers[t].st = "armed" /\ timers[t].path = path }

\* C1: for every file path there is at most one pending operation, that is
\* at most one timer waiting to process it, at any time.
C1_AtMostOnePendingPerPath ==
    \A path \in Paths : Cardinality(Waiting(path)) <= 1

\* C2: in a burst of created/modified events for one path, each arriving
\* while the timer of the previous one is still waiting, no timer but the
\* one of the last event gets past its wait, the path is handed to the
\* Indexer at most once, and once it has been no timer of the path is left.
C2_BurstIndexedOnce ==
    \A path \in Paths :
        (burst[path].ok /\ burst[path].n >= 1) =>
            /\ processed[path] <= 1
            /\ \A t \in Live(path) :
                  timers[t].st # "armed" =>
                      /\ timers[t].ev = burst[path].n
                      /\ processed[path] = 0
            /\ processed[path] = 1 => Live(path) = {}

\* a burst of at least two events has been indexed, once
C2_Witness ==
    \E path \in Paths :
        /\ burst[path].ok
        /\ burst[path].n >= 2
        /\ processed[path] = 1
        /\ catalog[path] # NoRow

\* C3: a deletion event for a managed audio path cancels the pending
\* operation of that path, removes its catalog row and emits one
\* library-updated notification.
C3_DeleteCancelsPending ==
    [][ \A h \in emitters : \A path \in FilesUnder(handlers[h]) :
           (is_supported_audio(path) /\ on_deleted(h, path)) =>
               /\ catalog'[path] = NoRow
               /\ signals' = signals + 1
               /\ pending_timers'[h][path] = 0
               /\ \A t \in Slots :
                     ~(timers'[t].st = "armed" /\ timers'[t].h = h
                                               /\ timers'[t].path = path) ]_vars

\* The extensions the specification calls transient.
TransientSet == {"part", "crdownload", "tmp", "download"}

\* C4: a path whose extension is .part, .crdownload, .tmp or .download never
\* has a timer armed, is never handed to the Indexer by a timer or by a
\* full scan, and never gets a catalog row.
C4_TransientNeverIndexed ==
    \A path \in Paths :
        Lower(Suffix(path)) \in TransientSet =>
            /\ Live(path) = {}
            /\ \A h \in HandlerSlots : /\ pending_timers[h][path] = 0
                                       /\ pending_files[h][path] = ""
            /\ processed[path] = 0
            /\ scanned[path] = 0
            /\ upserts[path] = 0
            /\ catalog[path] = NoRow

\* a rename away from a download artifact armed a timer for the audio file
\* and the scan loop has passed a file that is not audio
C4_Witness ==
    /\ events >= 1
    /\ visits >= 1
    /\ \A path \in Paths : scanned[path] = 0
    /\ \E t \in Slots : timers[t].st = "armed" /\ timers[t].src = "temp"

\* C5: after a rename from a download artifact to a managed audio path, the
\* timer that finds the destination present and its size steady performs
\* the one catalog upsert of the destination, and no artifact has a row.
C5_TempRenameUpsertsOnce ==
    [][ \A t \in Slots : \A file \in FileOutcomes \ {"missing"} :
           ( /\ events = 1
             /\ visits = 0
             /\ timers[t].src = "temp"
             /\ timers[t].size1 \in Sizes
             /\ timers[t].size1 = timers[t].size2
             /\ TimerIndex(t, file) ) =>
               /\ upserts'[timers[t].path] = 1
               /\ catalog'[timers[t].path] # NoRow
               /\ \A q \in Paths : _is_temp_file(q) => catalog'[q] = NoRow ]_vars

\* C6: a rename between two managed audio paths cancels the pending
\* operation of the old path and deletes its row, and the timer that finds
\* the destination present and its size steady upserts the new path, so
\* that the catalog then has a row for the new path.
C6_ManagedRename ==
    [][ /\ \A h \in emitters : \A old_path, new_path \in FilesUnder(handlers[h]) :
              ( /\ is_supported_audio(old_path)
                /\ is_supported_audio(new_path)
                /\ on_moved(h, old_path, new_path, TRUE) ) =>
                  /\ pending_timers'[h][old_path] = 0
                  /\ catalog'[old_path] = NoRow
                  /\ \E t \in Slots : /\ timers'[t].st = "armed"
                                      /\ timers'[t].path = new_path
                                      /\ timers'[t].src = "renamed"
        /\ \A t \in Slots : \A file \in FileOutcomes \ {"missing"} :
              ( /\ timers[t].src = "renamed"
                /\ timers[t].size1 \in Sizes
                /\ timers[t].size1 = timers[t].size2
                /\ TimerIndex(t, file) ) =>
                  /\ upserts'[timers[t].path] = upserts[timers[t].path] + 1
                  /\ catalog'[timers[t].path] # NoRow ]_vars

\* C7: remove_folder(r) changes no timer and no pending entry of a path
\* under another root; a path under another watched root that had a timer
\* waiting when r was removed keeps a timer until it is indexed, and no
\* more indexing actions happen for it than events armed timers for it.
C7_RemoveKeepsOtherPending ==
    [][ /\ \A r \in RootNames :
              RemoveFolder(r) =>
                  \A t \in Slots :
                      (timers[t].st # "free" /\ timers[t].path.root # r) =>
                          /\ timers'[t] = timers[t]
                          /\ pending_timers'[timers[t].h][timers[t].path]
                                = pending_timers[timers[t].h][timers[t].path]
                          /\ pending_files'[timers[t].h][timers[t].path]
                                = pending_files[timers[t].h][timers[t].path]
        /\ \A path \in survivors' :
              /\ Live(path)' # {} \/ processed'[path] >= 1
              /\ processed'[path] + Cardinality(Live(path)') <= burst'[path].n ]_vars

\* the timer of a path under the root that stayed has indexed it, once,
\* after the other root was removed
C7_Witness ==
    \E path \in survivors :
        /\ processed[path] = 1
        /\ Live(path) = {}
        /\ catalog[path] # NoRow

\* C8: a timer that reads two different sizes performs no upsert and arms a
\* new timer for the path; a timer that reads two equal sizes of a file
\* that is present performs the one upsert of the path.
C8_SizeProbe ==
    [][ /\ \A t \in Slots :
              TimerProbe(t, << TRUE, 100, 140 >>) =>
                  /\ upserts' = upserts
                  /\ processed' = processed
                  /\ \E u \in Slots : /\ timers'[u].st = "armed"
                                      /\ timers'[u].by = "retry"
                                      /\ timers'[u].path = timers[t].path
        /\ \A t \in Slots : \A file \in FileOutcomes \ {"missing"} :
              ( /\ events = 1
                /\ timers[t].src = ""
                /\ timers[t].size1 \in Sizes
                /\ timers[t].size1 = timers[t].size2
                /\ TimerIndex(t, file) ) =>
                  upserts'[timers[t].path] = 1 ]_vars

\* C9: stop_watching on a running session leaves no timer waiting, leaves
\* the pending maps empty and sets is_running to false.
C9_StopCancelsTimers ==
    [][ (is_running /\ StopWatching) =>
           /\ ~is_running'
           /\ \A t \in Slots : timers'[t].st # "armed"
           /\ \A h \in HandlerSlots : \A path \in Paths :
                 /\ pending_timers'[h][path] = 0
                 /\ pending_files'[h][path] = "" ]_vars

\* C10: start_watching(folder_paths) does not fail, watches exactly the
\* folders of the list that are directories, and sets is_running to true
\* if and only if there is at least one.
C10_StartWatchesValidSubset ==
    [][ \A folder_paths \in SeqsUpTo(RootNames, MaxRootList) :
           StartWatching(folder_paths) =>
               LET valid == { folder_paths[i] : i \in DOMAIN folder_paths }
                               \cap { r \in RootNames : IsDir(r) }
               IN  /\ ~raised'
                   /\ { r \in RootNames : watched_paths'[r] # 0 } = valid
                   /\ is_running' <=> (valid # {}) ]_vars

\* the timers whose wait has ended and whose callback is running
Running == { t \in Slots : timers[t].st \in {"fired", "removed", "index"} }

\* C11: an event that cancels and re-arms while the timer of the path has
\* already ended its wait changes nothing of that timer, and whatever the
\* interleaving, a path is handed to the Indexer by timers at most once per
\* event that armed a timer for it: no settle has two effects.
C11_LateCancelHarmless ==
    [][ /\ events' = events + 1 => \A t \in Running : timers'[t] = timers[t]
        /\ \A path \in Paths :
              processed'[path] + Cardinality(Live(path)') <= burst'[path].n ]_vars

\* the second event for a path was delivered after the first one's timer
\* had ended its wait: that timer has gone on to the Indexer call while the
\* second event's timer waits
C11_Witness ==
    \E t \in Running : \E u \in Slots :
        /\ timers[t].st = "index"
        /\ timers[t].ev = 1
        /\ timers[u].st = "armed"
        /\ timers[u].by = "event"
        /\ timers[u].path = timers[t].path
        /\ timers[u].ev = 2
        /\ burst[timers[t].path].n = 2

\* C12: after remove_folder(r) has rebuilt the subscription, every timer
\* that was waiting, and registered with its handler, for a path under
\* another watched root is still waiting, is registered with the handler
\* that now serves its root, so that a later event for the path cancels and
\* replaces it, and the observer delivers events again.
C12_RebuildKeepsPendingReplaceable ==
    [][ \A r \in RootNames :
           (watched_paths[r] # 0 /\ RemoveFolder(r)) =>
               \A t \in Slots :
                   ( /\ timers[t].st = "armed"
                     /\ timers[t].path.root # r
                     /\ watched_paths[timers[t].path.root] # 0
                     /\ pending_timers[timers[t].h][timers[t].path] = t ) =>
                       /\ timers'[t] = timers[t]
                       /\ watched_paths'[timers[t].path.root] # 0
                       /\ pending_timers'[watched_paths'[timers[t].path.root]]
                                         [timers[t].path] = t
                       /\ observer' = "started" ]_vars

\* WatchService.watched_paths as a set of roots
WatchedRoots == { r \in RootNames : watched_paths[r] # 0 }

\* C13: after any sequence of start_watching, add_folder, remove_folder and
\* stop_watching, is_running is true if and only if watched_paths is not
\* empty.
C13_RunningIffWatched == is_running <=> (WatchedRoots # {})

\* C14: library_updated is emitted once at a time and only by a step that
\* performs a catalog mutation, an add_track by a timer or a delete_track
\* by an event handler, so that the emissions never outnumber the settled
\* mutations.
C14_EmitOnlyOnMutation ==
    [][ signals' # signals =>
           /\ signals' = signals + 1
           /\ \/ \E path \in Paths : upserts'[path] = upserts[path] + 1
              \/ \E h \in emitters : \E path \in FilesUnder(handlers[h]) :
                    \/ on_deleted(h, path)
                    \/ \E new_path \in FilesUnder(handlers[h]), exists \in BOOLEAN :
                          on_moved(h, path, new_path, exists) ]_vars

\* the statements inside a with self.lock: block of DBService
DbStatements == {"add_track_locked", "delete_track_locked"}

\* C15: with scan_library, timer callbacks and event handlers running
\* concurrently, at most one thread is inside a catalog operation, it
\* holds DBService.lock, and the tracks table never has two rows with the
\* same path: add_track for a path that has a row changes nothing.
C15_CatalogSerializedUnique ==
    /\ \A i, j \in DOMAIN tracks : i # j => tracks[i] # tracks[j]
    /\ Cardinality({ th \in Threads : pc[th] \in DbStatements }) <= 1
    /\ \A th \in Threads : pc[th] \in DbStatements => dblock = th

\* a timer callback is inside add_track for a path that already has a row,
\* while the scan waits to add the same path and on_deleted waits to delete it
C15_Witness ==
    \E th \in TimerThreads :
        /\ pc[th] = "add_track_locked"
        /\ \E i \in DOMAIN tracks : tracks[i] = arg[th].path
        /\ pc["scan"] = "add_track"
        /\ arg["scan"].path = arg[th].path
        /\ pc["event"] = "delete_track"
        /\ arg["event"].path = arg[th].path

\* the statements that touch the filesystem, the Indexer, the catalog or
\* the signal
IOStatements ==
    {"exists", "probe", "_process_file", "add_track", "add_track_locked",
     "delete_track", "delete_track_locked", "emit"}

\* C20: no thread holds AudioFileHandler._lock while it checks existence,
\* runs the size probe, calls the Indexer or a catalog operation, or emits.
C20_MutexOnlyForBookkeeping ==
    \A th \in Threads : pc[th] \in IOStatements => mutex # th

\* a timer callback holds the lock for its bookkeeping while the event
\* thread waits for it and the scan is inside a catalog operation
C20_Witness ==
    \E th \in TimerThreads :
        /\ mutex = th
        /\ pc[th] = "callback_locked"
        /\ pc["event"] = "schedule"
        /\ pc["scan"] = "add_track_locked"

\* C16: when _process_file runs for a managed file that exists and whose
\* tags cannot be read, whether the reader returns nothing or raises, the
\* path has a catalog row afterwards, with empty title, artist and album if
\* the row is new.
C16_UnreadableTagsStillRecorded ==
    [][ /\ \A r \in RootNames : \A path \in FilesUnder(r) :
              \A file \in {"none", "raises"} :
                  (is_supported_audio(path) /\ ScanVisit(r, path, file)) =>
                      /\ catalog'[path] # NoRow
                      /\ catalog[path] = NoRow =>
                            /\ catalog'[path].title = ""
                            /\ catalog'[path].artist = ""
                            /\ catalog'[path].album = ""
        /\ \A t \in Slots : \A file \in {"none", "raises"} :
              TimerIndex(t, file) => catalog'[timers[t].path] # NoRow ]_vars

\* C17: no session operation raises to its caller.
C17_NoOperationRaises == ~raised

\* C18: a search_track whose key has a cache entry that is not older than
\* the lifetime sends no HTTP request and returns the cached result (None
\* for the cached empty result).
C18_CacheHitSkipsRequest ==
    [][ \A artist \in Artists \ {""}, title \in Titles, duration \in Durations,
           response \in Responses :
           LET key == _get_cache_key(artist, title, duration)
           IN  ( /\ cache[key] # NoEntry
                 /\ now - cache[key].cached_at <= CACHE_DURATION_HOURS
                 /\ SearchTrack(artist, title, duration, response) ) =>
                   /\ http' = http
                   /\ returned'.value = IF cache[key].result = "{}" THEN "None"
                                        ELSE cache[key].result ]_vars

\* C19: _load_from_cache of an entry older than 24 hours returns None and
\* removes the entry, so that the next load finds nothing; of an entry that
\* is not older it returns the saved result and leaves the cache as it is.
C19_ExpiredEntryRemoved ==
    [][ \A key \in Keys :
           (cache[key] # NoEntry /\ LoadFromCache(key)) =>
               IF now - cache[key].cached_at > CACHE_DURATION_HOURS
               THEN /\ returned'.value = "None"
                    /\ cache'[key] = NoEntry
                    /\ _load_from_cache(cache', key, now').found = "absent"
               ELSE /\ returned'.value = cache[key].result
                    /\ cache' = cache ]_vars

\* an entry older than the lifetime has just been loaded
C19_Witness ==
    /\ returned.op = "load"
    /\ returned.found = "expired"
    /\ returned.value = "None"
    /\ cache[returned.key] = NoEntry

\* the statements of the size probe and of an indexing action
WorkerStatements == {"probe", "_process_file", "add_track", "add_track_locked"}

\* C21: the event-delivery thread never runs the size probe (stat, sleep,
\* stat) or an indexing action; only Timer threads, and the scan, do.
C21_ProbeOnlyOnTimerThread == pc["event"] \notin WorkerStatements

\* the event thread is inside on_deleted while one timer thread sleeps in
\* its probe and the other is in the Indexer
C21_Witness ==
    /\ pc["event"] = "delete_track_locked"
    /\ \E th, other \in TimerThreads : pc[th] = "probe" /\ pc[other] = "_process_file"

\* C22: remove_folder(r) on a running session that watches r and another
\* root leaves it running, watching the same roots without r, each served
\* by a handler scheduled on a started observer; remove_folder of a root
\* that is not watched changes nothing of the session.
C22_RemoveKeepsSessionRunning ==
    [][ \A r \in RootNames :
           RemoveFolder(r) =>
               IF watched_paths[r] = 0
               THEN UNCHANGED << watched_paths, is_running, observer, emitters >>
               ELSE (is_running /\ WatchedRoots \ {r} # {}) =>
                       /\ is_running'
                       /\ ~raised'
                       /\ WatchedRoots' = WatchedRoots \ {r}
                       /\ observer' = "started"
                       /\ \A q \in WatchedRoots' : watched_paths'[q] \in emitters' ]_vars

\* C23: whenever a handler can be handed a rename whose old path is managed
\* audio and whose new path is not a managed audio file that exists, the
\* handler's step deletes the old path's row, emits one notification and
\* leaves the timers and the pending maps as they are.
C23_MovedAwayDeletes ==
    \A h \in emitters : \A old_path, new_path \in FilesUnder(handlers[h]) :
        \A exists \in BOOLEAN :
            ( /\ Delivers(h, old_path)
              /\ new_path # old_path
              /\ is_supported_audio(old_path)
              /\ ~(is_supported_audio(new_path) /\ exists) ) =>
                ENABLED ( /\ on_moved(h, old_path, new_path, exists)
                          /\ catalog'[old_path] = NoRow
                          /\ signals' = signals + 1
                          /\ UNCHANGED << timers, pending_timers, pending_files >> )

C25_FailedStatIsUnstable ==
    [][ \A t \in Slots : \A file \in FileOutcomes :
           ( /\ timers[t].st = "index"
             /\ timers[t].size1 = StatFailed \/ timers[t].size2 = StatFailed
             /\ TimerIndex(t, file) ) =>
                /\ catalog' = catalog
                /\ processed' = processed
                /\ signals' = signals ]_vars

\* C26: a firing whose two size samples were both read and differ performs no
\* indexing action and emits no notification, and leaves a fresh waiting
\* timer of the same handler, path and event kind stored in the pending maps;
\* the re-arm does not depend on how often the path was retried before.
C26_UnstableFileRearmed ==
    [][ \A t \in Slots : \A size1, size2 \in Sizes :
           ( /\ timers[t].st = "removed"
             /\ size1 # size2
             /\ TimerProbe(t, << TRUE, size1, size2 >>) ) =>
                LET h == timers[t].h
                    path == timers[t].path
                    id == pending_timers'[h][path]
                IN  /\ catalog' = catalog
                    /\ processed' = processed
                    /\ upserts' = upserts
                    /\ signals' = signals
                    /\ id \in Slots
                    /\ timers'[id].st = "armed"
                    /\ timers'[id].h = h
                    /\ timers'[id].path = path
                    /\ timers'[id].kind = timers[t].kind
                    /\ timers'[id].by = "retry"
                    /\ pending_files'[h][path] = timers[t].kind
                    /\ timers'[t].st \in {"free", "armed"} ]_vars

\* a waiting timer armed by the retry of a modified event, stored in the
\* pending map, its path never indexed
C26_Witness ==
    \E t \in Slots :
        /\ timers[t].st = "armed"
        /\ timers[t].by = "retry"
        /\ timers[t].kind = "modified"
        /\ pending_timers[timers[t].h][timers[t].path] = t
        /\ processed[timers[t].path] = 0
        /\ catalog[timers[t].path] = NoRow

\* C27: a firing first deletes its path's entries from both pending maps; if
\* path.exists() is then false the firing ends there: no catalog change, no
\* indexing attempt, no notification, no timer armed, the pending maps left
\* as they are, and, when no later event armed a timer for the path, neither
\* a map entry nor a waiting timer for the path remains.
C27_MissingFileAbandoned ==
    [][ \A t \in Slots :
           LET h == timers[t].h
               path == timers[t].path
           IN  /\ (timers[t].st = "fired" /\ TimerRemove(t)) =>
                      /\ pending_timers'[h][path] = 0
                      /\ pending_files'[h][path] = ""
               /\ (timers[t].st = "removed" /\ TimerProbe(t, << FALSE, 0, 0 >>)) =>
                      /\ UNCHANGED << catalog, processed, upserts, signals,
                                      pending_timers, pending_files >>
                      /\ timers' = [timers EXCEPT ![t] = FreeTimer]
                      /\ burst[path].n = timers[t].ev =>
                            /\ pending_timers'[h][path] = 0
                            /\ \A u \in Slots :
                                  timers'[u].path = path => timers'[u].st # "armed" ]_vars

DirectoryFrame == << timers, pending_timers, pending_files, catalog, signals,
                     processed, upserts >>

\* C28: whenever a handler can be handed an event flagged as a directory
\* event (created, modified, deleted or moved, under any name), it takes the
\* event and no outcome of its step arms or cancels a timer, touches the
\* pending maps, changes the catalog or emits a notification.
C28_DirectoryEventsIgnored ==
    \A h \in emitters : \A path \in FilesUnder(handlers[h]) :
        Delivers(h, path) =>
            /\ ENABLED OnCreated(h, path, TRUE)
            /\ ~ENABLED (OnCreated(h, path, TRUE) /\ ~UNCHANGED DirectoryFrame)
            /\ ENABLED OnDeleted(h, path, TRUE)
            /\ ~ENABLED (OnDeleted(h, path, TRUE) /\ ~UNCHANGED DirectoryFrame)
            /\ \A exists \in BOOLEAN :
                  /\ ENABLED OnModified(h, path, exists, TRUE)
                  /\ ~ENABLED ( /\ OnModified(h, path, exists, TRUE)
                                /\ ~UNCHANGED DirectoryFrame )
                  /\ \A new_path \in FilesUnder(handlers[h]) \ {path} :
                        /\ ENABLED OnMoved(h, path, new_path, exists, TRUE)
                        /\ ~ENABLED ( /\ OnMoved(h, path, new_path, exists, TRUE)
                                      /\ ~UNCHANGED DirectoryFrame )

\* a directory event can be delivered under a managed audio name that has a
\* catalog row while a timer is waiting for a managed audio name
C28_Witness ==
    \E h \in emitters : \E path \in FilesUnder(handlers[h]) :
        /\ is_supported_audio(path)
        /\ catalog[path] # NoRow
        /\ \E t \in Slots : timers[t].st = "armed" /\ is_supported_audio(timers[t].path)
        /\ ENABLED OnDeleted(h, path, TRUE)
        /\ \E new_path \in FilesUnder(handlers[h]) :
              is_supported_audio(new_path) /\ ENABLED OnMoved(h, path, new_path, TRUE, TRUE)

\* what the handlers and the catalog hold about path q
PathState(q) ==
    [row     |-> catalog[q],
     timers  |-> { t \in Slots : timers[t].path = q },
     threads |-> [t \in { u \in Slots : timers[u].path = q } |-> timers[t]],
     pending |-> [h \in HandlerSlots |-> << pending_timers[h][q], pending_files[h][q] >>]]

\* C29: a created, modified or deleted event for path p leaves the catalog
\* row, the timers and the pending-map entries of every other path as they
\* were, and a renamed event (old, new) leaves those of every path other
\* than old and new as they were.  (A handler that changes anything counts
\* its event, so only steps that count an event need to be looked at.)
C29_OtherPathsUntouched ==
    [][ events' = events + 1 =>
        \A h \in emitters : \A p \in FilesUnder(handlers[h]) :
           /\ ( \/ on_created(h, p)
                \/ \E exists \in BOOLEAN : on_modified(h, p, exists)
                \/ on_deleted(h, p) ) =>
                  \A q \in Paths \ {p} : PathState(q)' = PathState(q)
           /\ \A new_path \in FilesUnder(handlers[h]) :
                 (\E exists \in BOOLEAN : on_moved(h, p, new_path, exists)) =>
                     \A q \in Paths \ {p, new_path} : PathState(q)' = PathState(q) ]_vars

\* a rename armed a timer for its new path while another path has a catalog
\* row, a waiting timer and its entry in the pending maps
C29_Witness ==
    \E t, u \in Slots :
        /\ timers[t].st = "armed"
        /\ timers[t].kind = "moved"
        /\ timers[u].st = "armed"
        /\ timers[u].kind = "new"
        /\ timers[u].path # timers[t].path
        /\ pending_timers[timers[u].h][timers[u].path] = u
        /\ pending_files[timers[u].h][timers[u].path] = "new"
        /\ catalog[timers[u].path] # NoRow

\* C30: when the Indexer reads a file with readable tags and adds its row,
\* the row's title, artist, album and duration are the values read from the
\* file, and its genre and year are the unset defaults of add_track.
C30_FieldsStoredUnderOwnName ==
    [][ \A path \in Paths :
           ( /\ catalog[path] = NoRow
             /\ \/ \E r \in RootNames : ScanVisit(r, path, "ok")
                \/ \E t \in Slots : timers[t].path = path /\ TimerIndex(t, "ok") ) =>
                /\ catalog'[path].title = TagTitle
                /\ catalog'[path].artist = TagArtist
                /\ catalog'[path].album = TagAlbum
                /\ catalog'[path].duration = TagLength
                /\ catalog'[path].genre = ""
                /\ catalog'[path].year = "None" ]_vars

\* C32: the timer map agrees with the live timers: an entry for a path names
\* a live timer of that path armed by the path's latest event, and every
\* timer that is waiting (armed, not fired, not cancelled) is the entry of
\* its path in its handler's map.
C32_TimerMapConsistent ==
    /\ \A h \in HandlerSlots : \A path \in Paths :
          pending_timers[h][path] # 0 =>
              LET t == pending_timers[h][path]
              IN  /\ timers[t].st # "free"
                  /\ timers[t].h = h
                  /\ timers[t].path = path
                  /\ timers[t].ev = burst[path].n
    /\ \A t \in Slots :
          timers[t].st = "armed" =>
              pending_timers[timers[t].h][timers[t].path] = t

\* C35: the handlers subscribed to the observer are one per watched root:
\* each watched root has exactly one subscribed handler, and no handler is
\* subscribed for a root that is not watched.
C35_OneHandlerPerRoot ==
    /\ \A r \in WatchedRoots :
          Cardinality({ h \in emitters : handlers[h] = r }) = 1
    /\ Cardinality(emitters) = Cardinality(WatchedRoots)

\* C36: a search_track whose key has a cache entry holding the empty result,
\* saved no longer ago than the cache lifetime, returns None and sends no
\* HTTP request.
C36_EmptyResultCached ==
    [][ \A artist \in Artists \ {""}, title \in Titles \ {""}, duration \in Durations,
           response \in Responses :
           LET key == _get_cache_key(artist, title, duration)
           IN  ( /\ cache[key] # NoEntry
                 /\ cache[key].result = "{}"
                 /\ now - cache[key].cached_at <= CACHE_DURATION_HOURS
                 /\ SearchTrack(artist, title, duration, response) ) =>
                   /\ returned'.value = "None"
                   /\ http' = http ]_vars

\* C34: no timer exists for a path that _is_temp_file classifies as
\* transient, and no pending-map entry either, whichever event armed it.
C34_NoTimerForTransientPath ==
    /\ \A t \in Slots : timers[t].st # "free" => ~_is_temp_file(timers[t].path)
    /\ \A h \in HandlerSlots : \A path \in Paths :
          _is_temp_file(path) => pending_timers[h][path] = 0 /\ pending_files[h][path] = ""

\* C31: once a created, modified or moved-in event armed a timer for a
\* managed path whose file stays on disk and whose size stops changing, and
\* no later event comes for the path, the catalog eventually holds a row for
\* the path, a notification has been emitted, and no timer and no map entry
\* is left for the path.
C31_SettledEventIndexed ==
    \A path \in AudioPaths :
        (burst[path].n = 1) ~>
            ( /\ catalog[path] # NoRow
              /\ signals >= 1
              /\ Live(path) = {}
              /\ \A h \in HandlerSlots : pending_timers[h][path] = 0 )

\* a managed-to-managed rename deleted the old path's row and armed the
\* timer of the new path, which is still waiting
RenameDeleted ==
    \E t \in Slots : /\ timers[t].st = "armed"
                     /\ timers[t].by = "event"
                     /\ timers[t].src = "renamed"

\* C33: every catalog deletion by an event handler is followed by a
\* notification: a deleted event, and a rename that arms no timer, emit in
\* the handler's own step, and after a managed-to-managed rename, whose
\* handler deletes the old row and arms a timer, a notification is
\* eventually emitted.
C33_DeletionEventuallyNotified ==
    /\ [][ \A h \in emitters : \A path \in AudioPaths :
              ( /\ timers' = timers
                /\ \/ on_deleted(h, path)
                   \/ \E new_path \in AudioPaths, exists \in BOOLEAN :
                         on_moved(h, path, new_path, exists) ) =>
                  signals' = signals + 1 ]_vars
    /\ \A n \in 0 .. 2 * MaxEvents :
          (RenameDeleted /\ signals = n) ~> (signals > n)

====
